---- MODULE Spec2Model ----
(***************************************************************************)
(* A model of two pieces of orga:                                          *)
(*   - store/share.rs : Shared<T>, an Rc<RefCell<T>> handle to one store,  *)
(*     with get/put/delete forwarded under a RefCell borrow;               *)
(*   - macros/state.rs: #[derive(State)], which generates create/flush    *)
(*     for a struct, one sub-store per field, addressed by field index.    *)
(* Spec      is the state machine of the Shared handle.                    *)
(* SpecState is the state machine of the generator and its generated code. *)
(* SpecStore is the state machine of the sub-store views the generated     *)
(*           create hands to the fields.                                   *)
(***************************************************************************)
EXTENDS Integers, Sequences, FiniteSets, TLC

VARIABLES
    \* ---- store/share.rs ----
    hstate,     \* handle -> "unborn" | "live" | "dropped"
    hcell,      \* handle -> the Rc allocation it points to (0: none)
    cells,      \* Rc allocation -> [inner, borrow, strong, released]
    stack,      \* the get/put/delete calls in flight, outermost first
    panic,      \* <<>> or <<A, B>>: B, called inside A, panicked
    ref,        \* the same calls applied directly to the wrapped store
    lastPut,    \* <<h, k>>: the last write that succeeded was h.put(k, _)
    nClones,    \* number of clone() calls made
    nDrops,     \* number of handles dropped
    \* ---- macros/state.rs ----
    item,       \* the DeriveInput the generator is given
    phase,      \* "declared" | "derived" | "rejected" | "live" | "flushed"
                \* | "recreated" | "failed"
    gen,        \* what derive(item) emitted
    kv,         \* the root store: key (byte sequence) -> bytes
    val,        \* the materialized value (target -> field value), or <<>>
    prev,       \* the value the last flush consumed
    last,       \* the last create / flush: its input, result and calls
    nWrites     \* number of puts and deletes made through the store views

shareVars ==
    <<hstate, hcell, cells, stack, panic, ref, lastPut, nClones, nDrops>>

stateVars == <<item, phase, gen, kv, val, prev, last, nWrites>>

vars == <<shareVars, stateVars>>

(***************************************************************************)
(* Bounds                                                                  *)
(***************************************************************************)
MaxHandles == 3
MaxDepth == 2
MaxFields == 2
MaxWrites == 2
MaxKeyLen == 1

Handles == 1..MaxHandles
Cells == 1..MaxHandles
Keys == {123, 124}
Vals == {5, 6}
None == 0
Ops == {"get", "put", "delete"}
IoError == 1

(***************************************************************************)
(* The wrapped store (a Read + Write backend): exact-key get, upserting    *)
(* put, delete that is a no-op on an absent key.                           *)
(***************************************************************************)
Stores == [Keys -> Vals \cup {None}]
EmptyStore == [k \in Keys |-> None]

Ok(x) == <<"Ok", x>>
Err(e) == <<"Err", e>>

\* The backend's operation `op`; `fail` is the backend's own decision to
\* return an error (it then leaves its contents alone).
StoreApply(s, op, k, v, fail) ==
    IF fail THEN [store |-> s, ret |-> Err(IoError)]
    ELSE IF op = "get" THEN [store |-> s, ret |-> Ok(s[k])]
    ELSE IF op = "put" THEN [store |-> [s EXCEPT ![k] = v], ret |-> Ok(None)]
    ELSE [store |-> [s EXCEPT ![k] = None], ret |-> Ok(None)]

(***************************************************************************)
(* RefCell: borrow > 0 counts the shared borrows, borrow = -1 is the       *)
(* exclusive borrow. A refused borrow panics.                              *)
(***************************************************************************)
Refused == -2

RefCell_borrow(b) == IF b < 0 THEN Refused ELSE b + 1
RefCell_borrow_mut(b) == IF b # 0 THEN Refused ELSE -1

\* a guard that is leaked instead of dropped
RefCell_release_leak(b) == b

\* dropping the Ref / RefMut guard
RefCell_release(b) == IF b > 0 THEN b - 1 ELSE 0

(***************************************************************************)
(* Shared<T>                                                               *)
(***************************************************************************)
NoCell == [inner |-> EmptyStore, borrow |-> 0, strong |-> 0, released |-> FALSE]

\* Shared::new(inner): Rc::new(RefCell::new(inner))
Shared_new(inner) ==
    [inner |-> inner, borrow |-> 0, strong |-> 1, released |-> FALSE]

FreshCell(cs) == CHOOSE c \in Cells : cs[c].strong = 0 /\ ~cs[c].released

\* A clone that wraps a copy of the store in a new Rc.
Shared_clone_copy(cs, c) ==
    LET f == FreshCell(cs)
    IN  [ptr |-> f, cells |-> [cs EXCEPT ![f] = Shared_new(cs[c].inner)]]

\* Clone for Shared: Self(self.0.clone()), the same allocation, one more
\* strong reference.
Shared_clone(cs, c) ==
    [ptr |-> c, cells |-> [cs EXCEPT ![c].strong = @ + 1]]

\* A drop that frees the store whatever the count.
Shared_drop_eager(cs, c) ==
    [cs EXCEPT ![c].strong = @ - 1, ![c].released = TRUE]

\* Dropping a Shared drops its Rc: one strong reference less, and the
\* RefCell and the store in it are dropped with the last one.
Shared_drop(cs, c) ==
    [cs EXCEPT ![c].strong = @ - 1, ![c].released = (cs[c].strong = 1)]

\* Every operation borrowing exclusively.
Shared_borrow_all_mut(op, b) == RefCell_borrow_mut(b)

\* get: self.0.borrow(); put and delete: self.0.borrow_mut()
Shared_borrow(op, b) ==
    IF op = "get" THEN RefCell_borrow(b) ELSE RefCell_borrow_mut(b)

\* A put that is forwarded as a delete.
Shared_forward_wrong(s, op, k, v, fail) ==
    StoreApply(s, IF op = "put" THEN "delete" ELSE op, k, v, fail)

\* a forward that swallows the wrapped store's error: Ok(None) in its place
Shared_forward_swallow(s, op, k, v, fail) ==
    LET r == StoreApply(s, op, k, v, fail)
    IN  [store |-> r.store, ret |-> IF r.ret[1] = "Err" THEN Ok(None) ELSE r.ret]

\* store.get(key) / store.put(key, value) / store.delete(key) on the
\* borrowed store, its result returned as it is.
Shared_forward(s, op, k, v, fail) == StoreApply(s, op, k, v, fail)

Frame(h, op, k, v) ==
    [h |-> h, op |-> op, key |-> k, val |-> v, pc |-> "borrowed",
     ret |-> <<>>, exp |-> <<>>]

Live == {h \in Handles : hstate[h] = "live"}
InFlight == {stack[i].h : i \in 1..Len(stack)}
Top == stack[Len(stack)]
Running == panic = <<>>

ShareInit ==
    /\ hstate = [h \in Handles |-> IF h = 1 THEN "live" ELSE "unborn"]
    /\ hcell = [h \in Handles |-> IF h = 1 THEN 1 ELSE 0]
    /\ \E s \in Stores :
         /\ cells = [c \in Cells |-> IF c = 1 THEN Shared_new(s) ELSE NoCell]
         /\ ref = s
    /\ stack = <<>>
    /\ panic = <<>>
    /\ lastPut = <<>>
    /\ nClones = 0
    /\ nDrops = 0

\* let h2 = h.clone(); also possible from inside a call in flight
Clone(h) ==
    /\ Running
    /\ h \in Live
    /\ \E h2 \in Handles :
         /\ hstate[h2] = "unborn"
         /\ \A h3 \in Handles : h3 < h2 => hstate[h3] # "unborn"
         /\ LET r == Shared_clone(cells, hcell[h])
            IN  /\ cells' = r.cells
                /\ hcell' = [hcell EXCEPT ![h2] = r.ptr]
         /\ hstate' = [hstate EXCEPT ![h2] = "live"]
    /\ nClones' = nClones + 1
    /\ UNCHANGED <<stack, panic, ref, lastPut, nDrops>>
    /\ UNCHANGED stateVars

\* drop(h): a handle borrowed by a call in flight cannot be dropped
Drop(h) ==
    /\ Running
    /\ h \in Live
    /\ h \notin InFlight
    /\ cells' = Shared_drop(cells, hcell[h])
    /\ hstate' = [hstate EXCEPT ![h] = "dropped"]
    /\ nDrops' = nDrops + 1
    /\ UNCHANGED <<hcell, stack, panic, ref, lastPut, nClones>>
    /\ UNCHANGED stateVars

\* h.get(k) / h.put(k, v) / h.delete(k) is entered: the borrow is taken, or
\* refused with a panic. With a call in flight this is a call made from
\* inside the wrapped store's own operation.
Call(h, op, k, v) ==
    /\ Running
    /\ h \in Live
    /\ Len(stack) < MaxDepth
    /\ stack # <<>> => Top.pc = "borrowed"
    /\ op # "put" => v = None
    /\ op = "put" => v # None
    /\ LET c == hcell[h]
           b == Shared_borrow(op, cells[c].borrow)
       IN  IF b = Refused
           THEN /\ panic' = <<Top.op, op>>
                /\ UNCHANGED <<cells, stack>>
           ELSE /\ cells' = [cells EXCEPT ![c].borrow = b]
                /\ stack' = Append(stack, Frame(h, op, k, v))
                /\ UNCHANGED panic
    /\ UNCHANGED <<hstate, hcell, ref, lastPut, nClones, nDrops>>
    /\ UNCHANGED stateVars

\* the wrapped store's operation runs on the borrowed store
Complete(fail) ==
    /\ Running
    /\ stack # <<>>
    /\ Top.pc = "borrowed"
    /\ LET f == Top
           c == hcell[f.h]
           r == Shared_forward(cells[c].inner, f.op, f.key, f.val, fail)
           d == StoreApply(ref, f.op, f.key, f.val, fail)
       IN  /\ cells' = [cells EXCEPT ![c].inner = r.store]
           /\ ref' = d.store
           /\ stack' = [stack EXCEPT ![Len(stack)] =
                           [f EXCEPT !.pc = "done", !.ret = r.ret, !.exp = d.ret]]
           /\ lastPut' = IF f.op = "get" \/ r.ret[1] = "Err" THEN lastPut
                          ELSE IF f.op = "put" THEN <<f.h, f.key>>
                          ELSE <<>>
    /\ UNCHANGED <<hstate, hcell, panic, nClones, nDrops>>
    /\ UNCHANGED stateVars

\* the call returns: the guard is dropped
Return ==
    /\ Running
    /\ stack # <<>>
    /\ Top.pc = "done"
    /\ cells' = [cells EXCEPT ![hcell[Top.h]].borrow = RefCell_release(@)]
    /\ stack' = SubSeq(stack, 1, Len(stack) - 1)
    /\ UNCHANGED <<hstate, hcell, panic, ref, lastPut, nClones, nDrops>>
    /\ UNCHANGED stateVars

ShareNext ==
    \/ \E h \in Handles : Clone(h)
    \/ \E h \in Handles : Drop(h)
    \/ \E h \in Handles, op \in Ops, k \in Keys, v \in Vals \cup {None} :
         Call(h, op, k, v)
    \/ \E fail \in BOOLEAN : Complete(fail)
    \/ Return

(***************************************************************************)
(* Properties of the Shared handle                                         *)
(***************************************************************************)
\* what h.get(k) returns when the backend does not fail
Visible(h, k) ==
    Shared_forward(cells[hcell[h]].inner, "get", k, None, FALSE).ret

\* this step is the wrapped store's operation of the call on top
Completes ==
    /\ stack # <<>>
    /\ Top.pc = "borrowed"
    /\ Len(stack') = Len(stack)
    /\ stack'[Len(stack)].pc = "done"

\* this step is a call entered from inside a call in flight
NestedCall ==
    /\ stack # <<>>
    /\ Len(stack') > Len(stack) \/ panic' # panic

C1_State ==
    /\ \A i \in 1..Len(stack) :
         (stack[i].pc = "done" /\ stack[i].op = "get" /\ stack[i].ret[1] = "Ok")
            => stack[i].ret = Visible(stack[i].h, stack[i].key)
    /\ \A h1 \in Live, h2 \in Live, k \in Keys : Visible(h1, k) = Visible(h2, k)

C1_Step ==
    \A k \in Keys :
      /\ (Completes /\ Top.op = "put" /\ Top.key = k
             /\ stack'[Len(stack)].ret[1] = "Ok")
            => \A h \in Live : Visible(h, k)' = Ok(Top.val)
      /\ ~(Completes /\ Top.op # "get" /\ Top.key = k)
            => \A h \in Live : hstate'[h] = "live" => Visible(h, k)' = Visible(h, k)

\* C1: once put(k, v) has succeeded through one handle, get(k) through the
\* original handle and through every clone returns Some(v), and goes on doing
\* so until the next put or delete on k through any of them.
C1_Visibility == []C1_State /\ [][C1_Step]_vars

\* a get through one handle has returned the value put through another
C1_Witness ==
    /\ Len(stack) = 1
    /\ stack[1].op = "get" /\ stack[1].pc = "done"
    /\ stack[1].ret \in {Ok(v) : v \in Vals}
    /\ lastPut # <<>>
    /\ lastPut[2] = stack[1].key
    /\ lastPut[1] # stack[1].h

\* C2 as claimed: every call made while another call on the same store is in
\* flight panics and leaves the store alone, get inside get included.
C2_AllNestedPanic ==
    [][NestedCall => (panic' # <<>> /\ cells' = cells)]_vars

C2_Step ==
    /\ (stack # <<>> /\ Len(stack') > Len(stack))
          => /\ Top.op = "get"
             /\ stack'[Len(stack')].op = "get"
             /\ panic' = <<>>
             /\ \A c \in Cells : cells'[c].inner = cells[c].inner
    /\ (panic' # panic)
          => /\ stack # <<>>
             /\ panic'[1] = Top.op
             /\ panic' # <<"get", "get">>
             /\ cells' = cells
             /\ stack' = stack

\* What the code does on a nested call: it panics without touching the
\* store, for every pair except get inside get; a get inside a get is not
\* refused: it takes a second shared borrow and changes nothing.
C2_Reentrancy ==
    /\ [](\A i \in 1..Len(stack) : Len(stack) > 1 => stack[i].op = "get")
    /\ [][C2_Step]_vars

\* a get called from inside a put has panicked
C2_Witness == panic = <<"put", "get">>

\* C3: the results and the contents are those of the same calls applied, in
\* call order, directly to the one wrapped store.
C3_Linearized ==
    /\ \A i \in 1..Len(stack) :
         stack[i].pc = "done" => stack[i].ret = stack[i].exp
    /\ \A h \in Live : cells[hcell[h]].inner = ref

\* a get through the second clone returns what the first clone put, after
\* the original handle is gone
C3_Witness ==
    /\ Len(stack) = 1
    /\ stack[1].op = "get" /\ stack[1].pc = "done" /\ stack[1].h = 3
    /\ stack[1].ret = Ok(6)
    /\ lastPut = <<2, stack[1].key>>
    /\ hstate[1] = "dropped"

ShareCount == cells[1].strong

C4_State ==
    /\ \A h \in Live : hcell[h] = 1
    /\ ShareCount = 1 + nClones - nDrops
    /\ ShareCount = Cardinality(Live)
    /\ cells[1].released <=> ShareCount = 0
    /\ Live # {} => ~cells[1].released

C4_Step ==
    /\ nClones' = nClones + 1
          => ShareCount' = ShareCount + 1 /\ cells'[1].inner = cells[1].inner
    /\ (nDrops' = nDrops + 1 /\ ShareCount > 1)
          => /\ ~cells'[1].released
             /\ \A h \in Live, k \in Keys :
                  hstate'[h] = "live" => Visible(h, k)' = Visible(h, k)

\* C4: the share count is 1 + clones - drops; clone adds exactly one and
\* leaves the contents alone; the store is released exactly when the count
\* reaches zero, and dropping a handle that is not the last changes nothing
\* the remaining handles see.
C4_ShareCount == []C4_State /\ [][C4_Step]_vars

\* two clones were made and all three handles dropped: the store is released
C4_Witness == cells[1].released /\ nClones = 2 /\ nDrops = 3

C13_Step ==
    Completes =>
        LET f == Top
            c == hcell[f.h]
            g == stack'[Len(stack)]
        IN  \E fail \in BOOLEAN :
              LET b == StoreApply(cells[c].inner, f.op, f.key, f.val, fail)
              IN  /\ g.ret = b.ret
                  /\ cells'[c].inner = b.store
                  /\ fail <=> g.exp = Err(IoError)
                  /\ fail <=> g.ret = Err(IoError)

\* C13: a get, put or delete on a Shared handle returns exactly what the
\* wrapped store's operation returned on the borrowed store: its Err as it
\* is (never swallowed, replaced or made into Ok), its Ok as it is.
C13_ResultVerbatim == [][C13_Step]_vars

\* a delete through a clone has returned the wrapped store's error
C13_Witness ==
    /\ stack # <<>>
    /\ Top.pc = "done" /\ Top.op = "delete" /\ Top.h = 2
    /\ Top.ret = Err(IoError)

\* C14 as claimed: in every reachable state at most one borrow of the
\* underlying store, read or write, is active.
C14_OneBorrow == \A c \in Cells : cells[c].borrow \in {-1, 0, 1}

\* the calls in flight on cell c
InFlightOn(c) == {i \in 1..Len(stack) : hcell[stack[i].h] = c}

C15_State ==
    \A c \in Cells :
        cells[c].borrow =
            IF InFlightOn(c) = {} THEN 0
            ELSE IF \E i \in InFlightOn(c) : stack[i].op # "get" THEN -1
            ELSE Cardinality(InFlightOn(c))

C15_Step ==
    stack = <<>> =>
        /\ panic' = <<>>
        /\ Len(stack') = 1 => cells'[hcell[stack'[1].h]].borrow # 0

\* C15: a call's borrow is held for that call only: the borrows outstanding
\* are those of the calls in flight, none once every call has returned (with
\* Ok or with Err), so a call that is not nested is never refused.
C15_BorrowPerCall == []C15_State /\ [][C15_Step]_vars

\* after a put through one handle has returned, a delete through another
\* handle holds the exclusive borrow
C15_Witness ==
    /\ Len(stack) = 1
    /\ Top.op = "delete" /\ Top.pc = "borrowed"
    /\ lastPut # <<>> /\ lastPut[1] # Top.h
    /\ cells[hcell[Top.h]].borrow = -1

(***************************************************************************)
(* macros/state.rs: #[derive(State)]                                       *)
(***************************************************************************)
Idents == {"x", "y", "z"}
LeafVals == {4, 7}
DecodeError == 2

\* ---- leaf types and stores the generated code is linked against ----
\* A leaf's Encoding is its bytes (two bytes, little endian).
Encode(v) == [tag |-> "bytes", b |-> <<v % 256, v \div 256>>]
Decode(d) == d.b[1] + 256 * d.b[2]
BadBytes == [tag |-> "bytes", b |-> <<9>>]
Tuple(items) == [tag |-> "tuple", items |-> items]

\* store.sub(segment): a view whose keys are prefix ++ segment ++ key
Store_sub(prefix, segment) == prefix \o segment
KvPut(s, k, b) == [x \in DOMAIN s \cup {k} |-> IF x = k THEN b ELSE s[x]]
KvGet(s, k) == IF k \in DOMAIN s THEN s[k] ELSE <<>>
KvEmpty == [x \in {} |-> <<>>]
UnrelatedKey == <<9, 9>>

\* an orga::Error: what went wrong, and the context attached to it
Error(code) == [code |-> code, context |-> <<>>]

\* State::create of a leaf: decodes the data, bound to the store it is given
Leaf_create(store, data) ==
    IF data.tag = "bytes" /\ Len(data.b) = 2
    THEN [ret |-> Ok([val |-> Decode(data), store |-> store]), calls |-> <<>>]
    ELSE [ret |-> Err(Error(DecodeError)), calls |-> <<>>]

\* State::flush of a leaf: writes its bytes at its store, returns them
Leaf_flush(leaf, s, failAt) ==
    IF leaf.store = failAt
    THEN [ret |-> Err(Error(IoError)), kv |-> s, calls |-> <<>>]
    ELSE [ret |-> Ok(Encode(leaf.val)),
          kv |-> KvPut(s, leaf.store, Encode(leaf.val).b), calls |-> <<>>]

\* ---- the derive input ----
Field(id, ty) == [ident |-> id, ty |-> ty]
Types == {"Leaf", "Pair"}
\* a struct of the same crate that derives State too
PairDecl ==
    [kind |-> "tuple", fields |-> <<Field("", "Leaf"), Field("", "Leaf")>>]

FieldSeqs(n) == [1..n -> Idents \X Types]
NamedItems ==
    {[kind |-> "named",
      fields |-> [i \in DOMAIN f |-> Field(f[i][1], f[i][2])]] :
        f \in {g \in UNION {FieldSeqs(m) : m \in 0..MaxFields} :
                 \A i \in DOMAIN g, j \in DOMAIN g :
                    i # j => g[i][1] # g[j][1]}}
TupleItems ==
    UNION {{[kind |-> "tuple", fields |-> [i \in 1..n |-> Field("", t[i])]] :
              t \in [1..n -> Types]} : n \in 0..MaxFields}
\* a unit struct; enums and unions, whose variants (fields) are carried in
\* `fields`
OtherItems ==
    {[kind |-> "unit", fields |-> <<>>]}
    \cup {[kind |-> k, fields |-> it.fields] :
             k \in {"enum", "union"}, it \in NamedItems}

\* ---- derive ----
Panics == [panic |-> TRUE]

\* a struct_fields that takes the variants of an enum and the fields of a
\* union for struct fields
struct_fields_any(it) ==
    IF it.kind = "unit" THEN Panics
    ELSE [panic |-> FALSE, fields |-> it.fields]

\* Data::Enum: todo!; Data::Union: panic!; Fields::Unit: panic!; the named or
\* unnamed fields of a struct otherwise
struct_fields(it) ==
    IF it.kind = "enum" THEN Panics
    ELSE IF it.kind = "union" THEN Panics
    ELSE IF it.kind = "unit" THEN Panics
    ELSE [panic |-> FALSE, fields |-> it.fields]

is_tuple_struct(it) == it.kind = "tuple"

field_names(it) == [i \in 1..Len(it.fields) |-> it.fields[i].ident]
field_types(it) == [i \in 1..Len(it.fields) |-> it.fields[i].ty]

\* every field addressed by index 0
seq_all_zero(it) == [i \in 1..Len(field_names(it)) |-> 0]

\* (0..field_names().count()): the indexes 0, 1, ..., n - 1
seq(it) == [i \in 1..Len(field_names(it)) |-> i - 1]

\* the member a field is reached by: its name, or its index in a tuple struct
Member(it, i) == IF is_tuple_struct(it) THEN ToString(seq(it)[i])
                 ELSE field_names(it)[i]

\* field i created from the encoding component of field n - 1 - i
create_body_data_reversed(it) ==
    [i \in 1..Len(field_names(it)) |->
        [member |-> Member(it, i), ty |-> field_types(it)[i],
         seq_substore |-> seq(it)[i],
         seq_data |-> seq(it)[Len(field_names(it)) + 1 - i]]]

\* State::create(store.sub(&[#seq_substore]), data.#seq_data)?, one per
\* field, in the order of the declaration
create_body(it) ==
    [i \in 1..Len(field_names(it)) |->
        [member |-> Member(it, i), ty |-> field_types(it)[i],
         seq_substore |-> seq(it)[i], seq_data |-> seq(it)[i]]]

\* the fields flushed last to first
flush_body_reversed(it) ==
    [i \in 1..Len(field_names(it)) |->
        [member |-> Member(it, Len(field_names(it)) + 1 - i),
         ty |-> field_types(it)[Len(field_names(it)) + 1 - i]]]

flush_body(it) ==
    [i \in 1..Len(field_names(it)) |->
        [member |-> Member(it, i), ty |-> field_types(it)[i]]]

derive(it) ==
    IF struct_fields(it).panic THEN Panics
    ELSE [panic |-> FALSE,
          Encoding |-> field_types(it),
          create |-> create_body(it),
          flush |-> flush_body(it)]

\* ---- the generated code ----
\* an error tagged with the field it came from
Question_tagged(ret, member) ==
    Err([ret[2] EXCEPT !.context = <<member>> \o @])

\* a ? that converts the field's error to the record's own store error
Question_generic(ret, member) == Err(Error(IoError))

\* expr?: the error of a failed field is what the function returns
Question(ret, member) == ret

\* a create / flush that goes on after a failed field
Failed_never(ret) == FALSE

\* expr?: an Err returns from the function at once
Failed(ret) == ret[1] = "Err"

Call_(op, member, store, data, level, r) ==
    <<[op |-> op, member |-> member, store |-> store, data |-> data,
       level |-> level, ret |-> r.ret]>> \o r.calls

RECURSIVE RunCreate(_, _, _, _, _, _)
\* the generated create of the struct g was derived from, from field i on
RunCreate(g, store, data, i, built, log) ==
    IF i > Len(g.create)
    THEN [ret |-> Ok(built), calls |-> log]
    ELSE LET c == g.create[i]
             sub == Store_sub(store, <<c.seq_substore>>)
             d == data.items[c.seq_data + 1]
             r == IF c.ty = "Leaf" THEN Leaf_create(sub, d)
                  ELSE IF d.tag = "tuple"
                       THEN RunCreate(derive(PairDecl), sub, d, 1, <<>>, <<>>)
                       ELSE [ret |-> Err(Error(DecodeError)), calls |-> <<>>]
             log2 == log \o Call_("create", c.member, sub, d, Len(sub), r)
         IN  IF Failed(r.ret)
             THEN [ret |-> Question(r.ret, c.member), calls |-> log2]
             ELSE RunCreate(g, store, data, i + 1,
                            [m \in DOMAIN built \cup {c.member} |->
                               IF m = c.member THEN r.ret[2] ELSE built[m]],
                            log2)

RECURSIVE RunFlush(_, _, _, _, _, _, _, _)
\* the generated flush of the struct g was derived from, from field i on
RunFlush(g, self, level, failAt, i, out, log, s) ==
    IF i > Len(g.flush)
    THEN [ret |-> Ok(Tuple(out)), calls |-> log, kv |-> s]
    ELSE LET f == g.flush[i]
             r == IF f.ty = "Leaf" THEN Leaf_flush(self[f.member], s, failAt)
                  ELSE RunFlush(derive(PairDecl), self[f.member], level + 1,
                                failAt, 1, <<>>, <<>>, s)
             log2 == log \o Call_("flush", f.member, <<>>, <<>>, level, r)
         IN  IF Failed(r.ret)
             THEN [ret |-> Question(r.ret, f.member), calls |-> log2,
                   kv |-> r.kv]
             ELSE RunFlush(g, self, level, failAt, i + 1,
                           Append(out, r.ret[2]), log2, r.kv)

\* ---- the state machine ----
RECURSIVE EncodingsOf(_)
\* the values of the Encoding tuple of field types tys, bad bytes included
EncodingsOf(tys) ==
    IF tys = <<>> THEN {<<>>}
    ELSE LET firsts == IF tys[1] = "Leaf"
                       THEN {Encode(v) : v \in LeafVals} \cup {BadBytes}
                       ELSE {Tuple(e) : e \in EncodingsOf(field_types(PairDecl))}
         IN  {<<a>> \o rest : a \in firsts, rest \in EncodingsOf(Tail(tys))}

\* the stores of the leaves of a value of field types tys created at `store`
RECURSIVE LeafStores(_, _, _)
LeafStores(tys, store, i) ==
    IF i > Len(tys) THEN {}
    ELSE (IF tys[i] = "Leaf" THEN {Store_sub(store, <<i - 1>>)}
          ELSE LeafStores(field_types(PairDecl), Store_sub(store, <<i - 1>>), 1))
         \cup LeafStores(tys, store, i + 1)

NoPath == <<255>>
NoOp == [op |-> "none", data |-> <<>>, failAt |-> NoPath, ret |-> <<>>,
         calls |-> <<>>]

StateInit ==
    /\ item \in NamedItems \cup TupleItems \cup OtherItems
    /\ phase = "declared"
    /\ gen = <<>>
    /\ kv \in {KvEmpty, KvPut(KvEmpty, UnrelatedKey, <<1>>)}
    /\ val = <<>>
    /\ prev = <<>>
    /\ last = NoOp
    /\ nWrites = 0

\* the compiler expands #[derive(State)] on the item
DeriveAct ==
    /\ phase = "declared"
    /\ gen' = derive(item)
    /\ phase' = IF derive(item).panic THEN "rejected" ELSE "derived"
    /\ UNCHANGED <<item, kv, val, prev, last, nWrites>>
    /\ UNCHANGED shareVars

\* Self::create(store, data) with the root store
CreateAct ==
    /\ phase = "derived"
    /\ \E data \in EncodingsOf(field_types(item)) :
         LET r == RunCreate(gen, <<>>, Tuple(data), 1, <<>>, <<>>)
         IN  /\ last' = [op |-> "create", data |-> Tuple(data),
                         failAt |-> NoPath, ret |-> r.ret, calls |-> r.calls]
             /\ phase' = IF r.ret[1] = "Ok" THEN "live" ELSE "failed"
             /\ val' = IF r.ret[1] = "Ok" THEN r.ret[2] ELSE <<>>
    /\ UNCHANGED <<item, gen, kv, prev, nWrites>>
    /\ UNCHANGED shareVars

\* a flush that restores the store when a field fails
flush_store_rollback(before, r) ==
    IF r.ret[1] = "Err" THEN before ELSE r.kv

\* the store once the generated flush has returned: what its fields wrote,
\* also when a later field failed (the generated code undoes nothing)
flush_store(before, r) == r.kv

\* self.flush(); the write of the leaf at failAt (if any) fails
FlushAct ==
    /\ phase = "live"
    /\ \E failAt \in LeafStores(field_types(item), <<>>, 1) \cup {NoPath} :
         LET r == RunFlush(gen, val, 1, failAt, 1, <<>>, <<>>, kv)
         IN  /\ last' = [op |-> "flush", data |-> <<>>, failAt |-> failAt,
                         ret |-> r.ret, calls |-> r.calls]
             /\ phase' = IF r.ret[1] = "Ok" THEN "flushed" ELSE "failed"
             /\ kv' = flush_store(kv, r)
    /\ prev' = val
    /\ val' = <<>>
    /\ UNCHANGED <<item, gen, nWrites>>
    /\ UNCHANGED shareVars

\* Self::create(store, encoding) with the encoding the flush returned
RecreateAct ==
    /\ phase = "flushed"
    /\ LET r == RunCreate(gen, <<>>, last.ret[2], 1, <<>>, <<>>)
       IN  /\ last' = [op |-> "recreate", data |-> last.ret[2],
                       failAt |-> NoPath, ret |-> r.ret, calls |-> r.calls]
           /\ phase' = IF r.ret[1] = "Ok" THEN "recreated" ELSE "failed"
           /\ val' = IF r.ret[1] = "Ok" THEN r.ret[2] ELSE <<>>
    /\ UNCHANGED <<item, gen, kv, prev, nWrites>>
    /\ UNCHANGED shareVars

StateNext ==
    \/ DeriveAct
    \/ CreateAct
    \/ FlushAct
    \/ RecreateAct

ShareIdle ==
    /\ hstate = [h \in Handles |-> "unborn"]
    /\ hcell = [h \in Handles |-> 0]
    /\ cells = [c \in Cells |-> NoCell]
    /\ stack = <<>>
    /\ panic = <<>>
    /\ ref = EmptyStore
    /\ lastPut = <<>>
    /\ nClones = 0
    /\ nDrops = 0

StateIdle ==
    /\ item = [kind |-> "unit", fields |-> <<>>]
    /\ phase = "idle"
    /\ gen = <<>>
    /\ kv = KvEmpty
    /\ val = <<>>
    /\ prev = <<>>
    /\ last = NoOp
    /\ nWrites = 0


(***************************************************************************)
(* Properties of the generated create and flush                            *)
(***************************************************************************)
NFields == Len(item.fields)
Generated == phase \notin {"idle", "declared", "rejected"}

\* the member declared at position i (1-based)
DeclMember(it, i) ==
    IF it.kind = "tuple" THEN ToString(i - 1) ELSE it.fields[i].ident

\* the calls the compound create / flush made itself, in order
TopCalls == SelectSeq(last.calls, LAMBDA c : c.level = 1)

\* the sub-store path(s) under which the generated create of g creates
\* member m
PathOf(g, m) ==
    {<<g.create[j].seq_substore>> : j \in {i \in DOMAIN g.create :
                                              g.create[i].member = m}}

Swapped(it, i, j) ==
    [it EXCEPT !.fields = [it.fields EXCEPT ![i] = it.fields[j],
                                            ![j] = it.fields[i]]]

\* the declarations of the same field types under other names, and as a
\* tuple struct
Restyled(it) ==
    {[kind |-> "named",
      fields |-> [i \in DOMAIN it.fields |-> Field(f[i], it.fields[i].ty)]] :
        f \in {g \in [DOMAIN it.fields -> Idents] :
                 \A i \in DOMAIN g, j \in DOMAIN g : i # j => g[i] # g[j]}}
    \cup {[kind |-> "tuple",
           fields |-> [i \in DOMAIN it.fields |-> Field("", it.fields[i].ty)]]}

\* C5: create calls the create of field i once, with store.sub([i]) and
\* component i of the encoding, for i = 0..n-1 in declaration order; the path
\* of a field is its position: the names and the struct style do not matter,
\* and swapping two declared fields swaps their paths.
C5_CreateOrder ==
    (Generated /\ NFields >= 1) =>
      /\ (last.op \in {"create", "recreate"} /\ last.ret[1] = "Ok") =>
           /\ Len(TopCalls) = NFields
           /\ \A i \in 1..NFields :
                /\ TopCalls[i].member = DeclMember(item, i)
                /\ TopCalls[i].store = <<i - 1>>
                /\ TopCalls[i].data = last.data.items[i]
      /\ phase = "derived" =>
           /\ \A it2 \in Restyled(item), i \in 1..NFields :
                /\ PathOf(gen, DeclMember(item, i)) = {<<i - 1>>}
                /\ PathOf(derive(it2), DeclMember(it2, i))
                      = PathOf(gen, DeclMember(item, i))
           /\ item.kind = "named" =>
                \A i \in 1..NFields, j \in 1..NFields :
                   PathOf(derive(Swapped(item, i, j)), item.fields[i].ident)
                      = PathOf(gen, item.fields[j].ident)

\* a struct {y, x} has been created field by field
C5_Witness ==
    /\ phase = "live" /\ last.op = "create"
    /\ item.kind = "named" /\ NFields = 2
    /\ item.fields[1].ident = "y" /\ item.fields[2].ident = "x"
    /\ Len(TopCalls) = 2
    /\ TopCalls[1].data # TopCalls[2].data

\* what flushing the field value v returns when nothing fails
RECURSIVE EncodingOf(_)
EncodingOf(v) ==
    IF "val" \in DOMAIN v THEN Encode(v.val)
    ELSE Tuple([i \in 1..Cardinality(DOMAIN v) |-> EncodingOf(v[ToString(i - 1)])])

\* C6: flush flushes every field once, in declaration order, and returns a
\* tuple of arity n whose component i is what field i's flush returned, the
\* index under which create addresses that field's sub-store and data.
C6_FlushOrder ==
    (last.op = "flush" /\ last.ret[1] = "Ok") =>
      /\ Len(TopCalls) = NFields
      /\ Len(last.ret[2].items) = NFields
      /\ \A i \in 1..NFields :
           /\ TopCalls[i].member = DeclMember(item, i)
           /\ last.ret[2].items[i] = TopCalls[i].ret[2]
           /\ last.ret[2].items[i] = EncodingOf(prev[DeclMember(item, i)])
           /\ gen.create[i].member = TopCalls[i].member
           /\ gen.create[i].seq_substore = i - 1
           /\ gen.create[i].seq_data = i - 1

\* a tuple struct of two leaves holding different values has been flushed
C6_Witness ==
    /\ phase = "flushed"
    /\ item.kind = "tuple" /\ NFields = 2
    /\ item.fields[1].ty = "Leaf" /\ item.fields[2].ty = "Leaf"
    /\ last.ret[2].items[1] # last.ret[2].items[2]

\* C7: create(store, flush(v)) succeeds and equals v field for field, on an
\* empty store and on one holding keys outside the fields' sub-stores.
C7_RoundTrip ==
    last.op = "recreate" => (last.ret[1] = "Ok" /\ val = prev)

\* a struct of a leaf and a nested struct, recreated from its flush on a
\* store that held an unrelated key
C7_Witness ==
    /\ phase = "recreated"
    /\ NFields = 2
    /\ item.fields[1].ty = "Leaf" /\ item.fields[2].ty = "Pair"
    /\ UnrelatedKey \in DOMAIN kv
    /\ val = prev
    /\ val[DeclMember(item, 2)]["0"].val # val[DeclMember(item, 2)]["1"].val

RECURSIVE HasBad(_)
HasBad(d) ==
    IF d.tag = "bytes" THEN d = BadBytes
    ELSE \E i \in DOMAIN d.items : HasBad(d.items[i])

\* the first field whose create fails on data d (0: none)
FirstBad(d) ==
    IF \E i \in DOMAIN d.items : HasBad(d.items[i])
    THEN CHOOSE i \in DOMAIN d.items :
            HasBad(d.items[i]) /\ \A j \in 1..(i - 1) : ~HasBad(d.items[j])
    ELSE 0

\* the field whose create or flush failed in the last operation (0: none)
FailedField ==
    IF last.op = "create" THEN FirstBad(last.data)
    ELSE IF last.op = "flush" /\ last.failAt # NoPath THEN last.failAt[1] + 1
    ELSE 0

\* C9: when the create (flush) of field k fails, the compound create (flush)
\* returns an error at once: no later field is created (flushed), and no
\* record (encoding) is returned.
C9_Abort ==
    (last.op \in {"create", "flush"}) =>
      /\ (FailedField = 0) <=> (last.ret[1] = "Ok")
      /\ FailedField # 0 =>
           /\ Len(TopCalls) = FailedField
           /\ \A i \in 1..Len(TopCalls) :
                (TopCalls[i].ret[1] = "Err") <=> (i = FailedField)
           /\ phase = "failed"
           /\ val = <<>>

\* the create of the first of two fields failed: the second was never
\* created
C9_Witness ==
    /\ last.op = "create" /\ last.ret[1] = "Err"
    /\ NFields = 2 /\ FailedField = 1
    /\ Len(TopCalls) = 1

\* the error the failing leaf returned in the last operation
Underlying == last.calls[Len(last.calls)].ret

RECURSIVE Good(_)
\* the data d with its bad bytes replaced by good ones
Good(d) ==
    IF d.tag = "bytes" THEN (IF d = BadBytes THEN Encode(4) ELSE d)
    ELSE Tuple([i \in DOMAIN d.items |-> Good(d.items[i])])

\* the data d with bad bytes in its first leaf
Bad(d) ==
    IF d.tag = "bytes" THEN BadBytes
    ELSE Tuple([d.items EXCEPT ![1] = BadBytes])

\* the runs of the same operation on the same record in which another field
\* is the one that fails
OtherFailures ==
    IF last.op = "create"
    THEN {[field |-> j,
           r |-> RunCreate(gen, <<>>,
                           Tuple([Good(last.data).items EXCEPT ![j] = Bad(@)]),
                           1, <<>>, <<>>)] :
             j \in DOMAIN last.data.items \ {FailedField}}
    ELSE {[field |-> p[1] + 1,
           r |-> RunFlush(gen, prev, 1, p, 1, <<>>, <<>>, KvEmpty)] :
             p \in {q \in LeafStores(field_types(item), <<>>, 1) :
                       q[1] + 1 # FailedField}}

SameUnderlying(o) == o.r.calls[Len(o.r.calls)].ret = Underlying

\* C10 as claimed: the same underlying error raised by two different fields
\* of one record gives two distinguishable compound errors.
C10_ErrorNamesField ==
    (last.op \in {"create", "flush"} /\ FailedField # 0) =>
      \A o \in OtherFailures : SameUnderlying(o) => o.r.ret # last.ret

\* C10 (amended): the compound error is the failing field's error as it is,
\* with nothing added: the same underlying error raised by two different
\* fields gives the same compound error.
C10_ErrorUntagged ==
    (last.op \in {"create", "flush"} /\ FailedField # 0) =>
      /\ last.ret = TopCalls[Len(TopCalls)].ret
      /\ last.ret = Underlying
      /\ \A o \in OtherFailures : SameUnderlying(o) => o.r.ret = last.ret

\* the flush of the second field failed, and the first could have failed too
C10_Witness ==
    /\ last.op = "flush" /\ last.ret[1] = "Err"
    /\ NFields = 2 /\ FailedField = 2
    /\ \E o \in OtherFailures : o.field = 1 /\ SameUnderlying(o)


\* C11: the generator aborts on every enum and every union, whatever its
\* variants or fields: no State implementation is emitted for one.
C11_RejectsEnumUnion ==
    (item.kind \in {"enum", "union"} /\ phase # "declared") =>
        (phase = "rejected" /\ gen = Panics)

\* derive was run on an enum with two variants and panicked
C11_Witness ==
    /\ item.kind = "enum" /\ Len(item.fields) = 2
    /\ phase = "rejected"

\* C12 as claimed: every record type with zero fields is rejected, written as
\* a unit struct, as a struct with an empty {} or an empty (): no
\* implementation whose Encoding is the empty tuple is emitted.
C12_RejectsZeroFields ==
    (item.kind \in {"unit", "named", "tuple"} /\ Len(item.fields) = 0
        /\ phase # "declared")
      => (phase = "rejected" /\ gen = Panics)

\* C16: a recoverable error of a field's create or flush is returned
\* unmodified: at every level of nesting each enclosing call, and the compound
\* call itself, returns the very error value the failing leaf returned.
C16_ErrorUnmodified ==
    (last.op \in {"create", "flush", "recreate"} /\ last.ret[1] = "Err") =>
      /\ last.calls # <<>>
      /\ \A i \in DOMAIN last.calls :
           last.calls[i].ret[1] = "Err" => last.calls[i].ret = last.ret
      /\ last.ret = Err(Error(IF last.op = "flush" THEN IoError
                              ELSE DecodeError))

\* the create of a leaf nested two levels down failed, and the compound
\* create returned its error
C16_Witness ==
    /\ last.op = "create"
    /\ last.ret = Err(Error(DecodeError))
    /\ \E i \in DOMAIN last.calls :
         last.calls[i].level = 2 /\ last.calls[i].ret[1] = "Err"

RECURSIVE LeavesOf(_, _)
\* the leaves of the value v, each with the members that lead to it
LeavesOf(v, at) ==
    IF "store" \in DOMAIN v
    THEN {[at |-> at, store |-> v.store, val |-> v.val]}
    ELSE UNION {LeavesOf(v[m], Append(at, m)) : m \in DOMAIN v}

\* path p comes before path q in field order
Precedes(p, q) ==
    \E j \in 1..Len(p) :
        /\ j <= Len(q)
        /\ SubSeq(p, 1, j - 1) = SubSeq(q, 1, j - 1)
        /\ p[j] < q[j]

\* C17: nothing is rolled back: when the flush of a field fails, every write
\* the earlier fields made under their sub-stores is still in the store when
\* the compound flush has returned the error.
C17_NoRollback ==
    (last.op = "flush" /\ last.ret[1] = "Err") =>
      \A l \in LeavesOf(prev, <<>>) :
         Precedes(l.store, last.failAt) =>
            KvGet(kv, l.store) = Encode(l.val).b

\* the flush of the second field failed after the first field, a leaf, had
\* written its bytes
C17_Witness ==
    /\ last.op = "flush" /\ last.ret[1] = "Err"
    /\ FailedField = 2
    /\ field_types(item)[1] = "Leaf"
    /\ KvGet(kv, <<0>>) # <<>>

(***************************************************************************)
(* The sub-store views the generated create hands out, written to and read *)
(* from directly.                                                          *)
(***************************************************************************)
KeyBytes == {0, 1}
ViewKeys == UNION {[1..n -> KeyBytes] : n \in 0..MaxKeyLen}
ViewVals == {<<1>>, <<2>>}

\* view.get(key) / view.put(key, value) / view.delete(key) of a view with
\* path prefix `view`
View_get(s, view, k) == KvGet(s, Store_sub(view, k))
View_put(s, view, k, b) == KvPut(s, Store_sub(view, k), b)
View_delete(s, view, k) ==
    [x \in DOMAIN s \ {Store_sub(view, k)} |-> s[x]]

\* the store the generated create of g hands to its i-th field
FieldView(g, store, i) == Store_sub(store, <<g.create[i].seq_substore>>)

\* the parent store, the views of the fields, and the views a nested struct
\* hands to its own fields
Views ==
    {<<>>}
    \cup {FieldView(gen, <<>>, i) : i \in DOMAIN gen.create}
    \cup UNION {{FieldView(derive(PairDecl), FieldView(gen, <<>>, i), j) :
                    j \in DOMAIN derive(PairDecl).create} :
                 i \in {n \in DOMAIN gen.create : gen.create[n].ty = "Pair"}}

StoreItems ==
    {it \in NamedItems \cup TupleItems :
        /\ Len(it.fields) = 2
        /\ it.fields[1].ty = "Pair" /\ it.fields[2].ty = "Leaf"
        /\ it.kind = "named" => (it.fields[1].ident = "x"
                                  /\ it.fields[2].ident = "y")}

StoreInit ==
    /\ item \in StoreItems
    /\ phase = "store"
    /\ gen = derive(item)
    /\ kv = KvEmpty
    /\ val = <<>>
    /\ prev = <<>>
    /\ last = NoOp
    /\ nWrites = 0

ViewPut(view, k, b) ==
    /\ phase = "store"
    /\ nWrites < MaxWrites
    /\ kv' = View_put(kv, view, k, b)
    /\ last' = [NoOp EXCEPT !.op = "put", !.data = view]
    /\ nWrites' = nWrites + 1
    /\ UNCHANGED <<item, phase, gen, val, prev>>
    /\ UNCHANGED shareVars

ViewDelete(view, k) ==
    /\ phase = "store"
    /\ nWrites < MaxWrites
    /\ kv' = View_delete(kv, view, k)
    /\ last' = [NoOp EXCEPT !.op = "delete", !.data = view]
    /\ nWrites' = nWrites + 1
    /\ UNCHANGED <<item, phase, gen, val, prev>>
    /\ UNCHANGED shareVars

StoreNext ==
    \/ \E view \in Views, k \in ViewKeys, b \in ViewVals : ViewPut(view, k, b)
    \/ \E view \in Views, k \in ViewKeys : ViewDelete(view, k)

IsPrefix(p, q) == Len(p) <= Len(q) /\ SubSeq(q, 1, Len(p)) = p

\* every key of the parent store that this step changed
Changed == {x \in DOMAIN kv \cup DOMAIN kv' : KvGet(kv, x) # KvGet(kv', x)}

\* this step is a put or a delete through the view with path p
WriteThrough(p) == nWrites' = nWrites + 1 /\ last'.data = p

View0 == FieldView(gen, <<>>, 1)
View1 == FieldView(gen, <<>>, 2)

\* the gets through view v that this step left as they were
Untouched(v) ==
    \A k \in ViewKeys : View_get(kv', v, k) = View_get(kv, v, k)

C18_DisjointLeaves ==
    /\ phase \in {"live", "recreated"} =>
         \A a, b \in LeavesOf(val, <<>>) :
            a.at # b.at =>
              /\ a.store # b.store
              /\ ~IsPrefix(a.store, b.store)
              /\ \A k1, k2 \in ViewKeys : a.store \o k1 # b.store \o k2
    /\ phase = "flushed" =>
         \A l \in LeavesOf(prev, <<>>) : KvGet(kv, l.store) = Encode(l.val).b

\* a flushed record with a top-level leaf and the two leaves of a nested
\* record
C18_Witness ==
    /\ phase = "flushed"
    /\ \E a, b, c \in LeavesOf(prev, <<>>) :
         /\ Len(a.store) = 1
         /\ Len(b.store) = 2 /\ Len(c.store) = 2
         /\ b.store # c.store
         /\ SubSeq(b.store, 1, 1) = SubSeq(c.store, 1, 1)

Init == ShareInit /\ StateIdle
Next == ShareNext
Spec == Init /\ [][Next]_vars

InitState == StateInit /\ ShareIdle
NextState == StateNext
SpecState == InitState /\ [][NextState]_vars

InitStore == StoreInit /\ ShareIdle
NextStore == StoreNext
SpecStore == InitStore /\ [][NextStore]_vars

====
